---- MODULE Spec2Model ----
(***************************************************************************)
(* A model of src/Indexing-tutorial.ipynb: one "Run All" of the notebook.  *)
(* The kernel executes the code cells top to bottom and stops at the first *)
(* exception that leaves a cell.  The calls into third-party libraries     *)
(* (PyPDFLoader, RecursiveCharacterTextSplitter, OllamaEmbeddings,         *)
(* MongoClient, MongoDBAtlasVectorSearch) are modelled by their possible   *)
(* outcomes: a result of any size within the bounds, or an exception.      *)
(***************************************************************************)
EXTENDS Integers, Sequences, FiniteSets

\* ---------------------------------------------------------------- bounds
\* Largest number of ancestors of the working directory.
MaxDepth == 3
\* Largest number of pages loader.load() returns.
MaxPages == 39
\* Largest number of chunks split_documents returns.
MaxSplits == 3

\* ------------------------------------------------------ program constants
\* docs[37] in the loader cell.
PageIdx == 37
\* all_splits[0] and all_splits[1] in the embedding example.
SplitIdx0 == 0
SplitIdx1 == 1

VARIABLES
    pc,          \* the code cell the kernel runs next ("done" after the last)
    err,         \* the exception that left a cell and stopped the run
    executed,    \* the code cells started so far, in order
    defined,     \* the names bound in the kernel's namespace
    depth,       \* file system: number of ancestors of os.getcwd()
    marker,      \* file system: ancestor k lists ".git" or ".project-root"
    envExists,   \* file system: root_dir/.secrets/.env exists
    fileExists,  \* file system: root_dir/data/vmd_sample.pdf exists
    i,           \* root search: parents consumed by the for loop
    listed,      \* root search: ancestors passed to os.listdir
    rootDir,     \* root_dir as an ancestor index (0: unbound)
    nDocs,       \* len(docs)
    nSplits,     \* len(all_splits)
    embedCalls,  \* calls of embeddings_model.embed_query
    storeCalls,  \* calls of MongoDBAtlasVectorSearch(...)
    upserted,    \* records written to the collection by this run
    pingResult,  \* "none", "ok" or "failed": client.admin.command("ping")
    failures     \* exceptions raised so far, caught ones included

vars == <<pc, err, executed, defined, depth, marker, envExists, fileExists,
          i, listed, rootDir, nDocs, nSplits, embedCalls, storeCalls,
          upserted, pingResult, failures>>

\* -------------------------------------------------------------- notebook
\* The code cells after the import cell, in notebook order.
Cells == <<"root", "env", "documents", "load", "split", "embedder",
           "embed", "client", "names", "store">>

CellIndex(c) == CHOOSE k \in 1..Len(Cells) : Cells[k] = c

NextCell_Retry(c) ==
    IF c = "store" THEN "client"
    ELSE IF CellIndex(c) = Len(Cells) THEN "done" ELSE Cells[CellIndex(c) + 1]

\* Run All: the cell below c, or "done" after the last one.
NextCell(c) ==
    IF CellIndex(c) = Len(Cells) THEN "done" ELSE Cells[CellIndex(c) + 1]

NoErr == [cell |-> "none", type |-> "none"]

\* The kernel is about to run cell c: no exception has stopped the run.
Running(c) == pc = c /\ err = NoErr

\* seq[k] raises IndexError unless k < len(seq).
HasIndex(n, k) == k < n

ListedDir_p(p) == p

\* The directory the loop body lists and binds: current_dir.parent, whatever p.
ListedDir(p) == 1

\* ".git" or ".project-root" is in the listing of ancestor d (the listing
\* itself is taken to succeed: the directory is readable).
HasMarker(d) == marker[d]

PathAssert_Skipped(exists) == TRUE

\* assert os.path.exists(file_path)
PathAssert(exists) == exists

ExceptClause_None(e) == FALSE

\* except Exception as e: every exception the ping raises is caught.
ExceptClause(e) == TRUE

PingErrors == {"ConnectionFailure", "OperationFailure"}

LoaderCellOk_FirstPage(n) == HasIndex(n, 0)

\* The prints of the loader cell: docs[37] and docs[0].
LoaderCellOk(n) == HasIndex(n, PageIdx) /\ HasIndex(n, 0)

\* ------------------------------------------------------------------ Init
Init ==
    /\ pc = "root"
    /\ err = NoErr
    /\ executed = <<>>
    /\ defined = {}
    /\ depth \in 0..MaxDepth
    /\ marker \in [1..depth -> BOOLEAN]
    /\ envExists \in BOOLEAN
    /\ fileExists \in BOOLEAN
    /\ i = 0
    /\ listed = {}
    /\ rootDir = 0
    /\ nDocs = 0
    /\ nSplits = 0
    /\ embedCalls = 0
    /\ storeCalls = 0
    /\ upserted = 0
    /\ pingResult = "none"
    /\ failures = 0

\* The cell at pc starts (once per cell: the root cell's loop iterates).
Start(c) == executed' = IF executed # <<>> /\ executed[Len(executed)] = c
                        THEN executed ELSE Append(executed, c)

\* An exception of type t leaves cell c: the run stops there.
Raise(c, t) ==
    /\ err' = [cell |-> c, type |-> t]
    /\ failures' = failures + 1
    /\ pc' = pc

Fs == <<depth, marker, envExists, fileExists>>

\* ----------------------------------------------------------- root search
\* One iteration of `for p in current_dir.parents`.
RootIter ==
    /\ Running("root")
    /\ i < depth
    /\ Start("root")
    /\ LET p == i + 1
           d == ListedDir(p)
       IN /\ listed' = listed \cup {d}
          /\ IF HasMarker(d)
             THEN /\ rootDir' = d
                  /\ defined' = defined \cup {"root_dir"}
                  /\ pc' = NextCell("root")
                  /\ i' = i
             ELSE /\ i' = i + 1
                  /\ UNCHANGED <<rootDir, defined, pc>>
    /\ UNCHANGED <<err, Fs, nDocs, nSplits, embedCalls, storeCalls, upserted,
                   pingResult, failures>>

\* The loop's else clause: the parents are exhausted without a break.
RootElse ==
    /\ Running("root")
    /\ i = depth
    /\ Start("root")
    /\ Raise("root", "Exception")
    /\ UNCHANGED <<defined, Fs, i, listed, rootDir, nDocs, nSplits,
                   embedCalls, storeCalls, upserted, pingResult>>

\* ---------------------------------------------------------------- env
EnvCell ==
    /\ Running("env")
    /\ Start("env")
    /\ IF envExists
       THEN /\ pc' = NextCell("env")
            /\ defined' = defined \cup {"f"}
            /\ UNCHANGED <<err, failures>>
       ELSE /\ Raise("env", "AssertionError")
            /\ defined' = defined \cup {"f"}
    /\ UNCHANGED <<Fs, i, listed, rootDir, nDocs, nSplits, embedCalls,
                   storeCalls, upserted, pingResult>>

DocumentsCell ==
    /\ Running("documents")
    /\ Start("documents")
    /\ pc' = NextCell("documents")
    /\ defined' = defined \cup {"documents"}
    /\ UNCHANGED <<err, Fs, i, listed, rootDir, nDocs, nSplits, embedCalls,
                   storeCalls, upserted, pingResult, failures>>

\* -------------------------------------------------------------- loader
LoadCell ==
    /\ Running("load")
    /\ Start("load")
    /\ \/ /\ ~PathAssert(fileExists)
          /\ Raise("load", "AssertionError")
          /\ defined' = defined \cup {"file_path"}
          /\ UNCHANGED nDocs
       \/ /\ PathAssert(fileExists)
          /\ Raise("load", "LoaderError")
          /\ defined' = defined \cup {"file_path", "loader"}
          /\ UNCHANGED nDocs
       \/ /\ PathAssert(fileExists)
          /\ fileExists
          /\ \E n \in 0..MaxPages :
                /\ nDocs' = n
                /\ defined' = defined \cup {"file_path", "loader", "docs"}
                /\ IF LoaderCellOk(n)
                   THEN /\ pc' = NextCell("load")
                        /\ UNCHANGED <<err, failures>>
                   ELSE Raise("load", "IndexError")
    /\ UNCHANGED <<Fs, i, listed, rootDir, nSplits, embedCalls, storeCalls,
                   upserted, pingResult>>

\* ------------------------------------------------------------ splitter
SplitCell ==
    /\ Running("split")
    /\ Start("split")
    /\ \/ /\ Raise("split", "SplitterError")
          /\ UNCHANGED <<defined, nSplits>>
       \/ /\ \E n \in 0..MaxSplits : nSplits' = n
          /\ defined' = defined \cup {"text_splitter", "all_splits"}
          /\ pc' = NextCell("split")
          /\ UNCHANGED <<err, failures>>
    /\ UNCHANGED <<Fs, i, listed, rootDir, nDocs, embedCalls, storeCalls,
                   upserted, pingResult>>

\* ------------------------------------------------------------ embedder
EmbedderCell ==
    /\ Running("embedder")
    /\ Start("embedder")
    /\ \/ /\ Raise("embedder", "EmbeddingError")
          /\ UNCHANGED defined
       \/ /\ defined' = defined \cup {"embeddings_model"}
          /\ pc' = NextCell("embedder")
          /\ UNCHANGED <<err, failures>>
    /\ UNCHANGED <<Fs, i, listed, rootDir, nDocs, nSplits, embedCalls,
                   storeCalls, upserted, pingResult>>

\* The embedding example: embed_query on all_splits[0] and all_splits[1].
EmbedCell ==
    /\ Running("embed")
    /\ Start("embed")
    /\ \/ /\ ~HasIndex(nSplits, SplitIdx0)
          /\ Raise("embed", "IndexError")
          /\ UNCHANGED <<embedCalls, defined>>
       \/ /\ HasIndex(nSplits, SplitIdx0)
          /\ embedCalls' = embedCalls + 1
          /\ Raise("embed", "EmbeddingError")
          /\ UNCHANGED defined
       \/ /\ HasIndex(nSplits, SplitIdx0)
          /\ ~HasIndex(nSplits, SplitIdx1)
          /\ embedCalls' = embedCalls + 1
          /\ defined' = defined \cup {"vector_1"}
          /\ Raise("embed", "IndexError")
       \/ /\ HasIndex(nSplits, SplitIdx0)
          /\ HasIndex(nSplits, SplitIdx1)
          /\ embedCalls' = embedCalls + 2
          /\ defined' = defined \cup {"vector_1"}
          /\ Raise("embed", "EmbeddingError")
       \/ /\ HasIndex(nSplits, SplitIdx0)
          /\ HasIndex(nSplits, SplitIdx1)
          /\ embedCalls' = embedCalls + 2
          /\ defined' = defined \cup {"vector_1", "vector_2"}
          /\ pc' = NextCell("embed")
          /\ UNCHANGED <<err, failures>>
    /\ UNCHANGED <<Fs, i, listed, rootDir, nDocs, nSplits, storeCalls,
                   upserted, pingResult>>

\* -------------------------------------------------------- vector store
\* MongoClient(uri, ...) and the ping inside try/except.
ClientCell ==
    /\ Running("client")
    /\ Start("client")
    /\ \/ /\ Raise("client", "ConfigurationError")
          /\ defined' = defined \cup {"uri"}
          /\ UNCHANGED pingResult
       \/ /\ pingResult' = "ok"
          /\ defined' = defined \cup {"uri", "client"}
          /\ pc' = NextCell("client")
          /\ UNCHANGED <<err, failures>>
       \/ \E e \in PingErrors :
             /\ pingResult' = "failed"
             /\ defined' = defined \cup {"uri", "client"}
             /\ IF ExceptClause(e)
                THEN /\ failures' = failures + 1
                     /\ pc' = NextCell("client")
                     /\ UNCHANGED err
                ELSE Raise("client", e)
    /\ UNCHANGED <<Fs, i, listed, rootDir, nDocs, nSplits, embedCalls,
                   storeCalls, upserted>>

NamesCell ==
    /\ Running("names")
    /\ Start("names")
    /\ pc' = NextCell("names")
    /\ defined' = defined \cup {"db", "MONGODB_COLLECTION"}
    /\ UNCHANGED <<err, Fs, i, listed, rootDir, nDocs, nSplits, embedCalls,
                   storeCalls, upserted, pingResult, failures>>

\* vector_store = MongoDBAtlasVectorSearch(...): the object is constructed;
\* the cell adds no document to it.
StoreCell ==
    /\ Running("store")
    /\ Start("store")
    /\ storeCalls' = storeCalls + 1
    /\ \/ /\ Raise("store", "VectorStoreError")
          /\ UNCHANGED defined
       \/ /\ defined' = defined \cup {"vector_store"}
          /\ pc' = NextCell("store")
          /\ UNCHANGED <<err, failures>>
    /\ UNCHANGED <<Fs, i, listed, rootDir, nDocs, nSplits, embedCalls,
                   upserted, pingResult>>

Next ==
    \/ RootIter
    \/ RootElse
    \/ EnvCell
    \/ DocumentsCell
    \/ LoadCell
    \/ SplitCell
    \/ EmbedderCell
    \/ EmbedCell
    \/ ClientCell
    \/ NamesCell
    \/ StoreCell

Spec == Init /\ [][Next]_vars

\* The kernel keeps executing while a cell is left to run.
FairSpec == Spec /\ WF_vars(Next)

\* ---------------------------------------------------------------- claims
Range(s) == {s[k] : k \in 1..Len(s)}

IsPrefix(s, t) == Len(s) <= Len(t) /\ \A k \in 1..Len(s) : s[k] = t[k]

Last(s) == s[Len(s)]

\* C1: the cells run in notebook order, each at most once and never back to
\* an earlier one (the started cells are a prefix of the notebook's cells),
\* so Loader, Splitter, Embedder and Index Writer run in that order; and a
\* stage starts only after the stage before it has bound its result.
C1_StageOrder ==
    /\ IsPrefix(executed, Cells)
    /\ "split" \in Range(executed) => "docs" \in defined
    /\ "embed" \in Range(executed) =>
          {"all_splits", "embeddings_model"} \subseteq defined
    /\ "client" \in Range(executed) => {"vector_1", "vector_2"} \subseteq defined
    /\ "store" \in Range(executed) => "MONGODB_COLLECTION" \in defined
    /\ embedCalls <= 2
    /\ storeCalls <= 1

\* A whole run: every cell has run, the vector store is constructed.
C1_Witness == pc = "done" /\ executed = Cells /\ "vector_store" \in defined

\* C2 as stated: whenever any exception has been raised, the run is aborted
\* in the cell that raised it.
C2_Original ==
    failures > 0 => (err # NoErr /\ Last(executed) = err.cell)

\* C2, amended: every raised exception except a failed ping stops the run in
\* the cell that raised it (no later cell starts); a failed ping is caught,
\* never stops the run, and the cells after it run.
C2_FailFastExceptPing ==
    /\ err # NoErr =>
          executed # <<>> /\ Last(executed) = err.cell /\ pc = err.cell
    /\ failures = (IF err # NoErr THEN 1 ELSE 0)
                  + (IF pingResult = "failed" THEN 1 ELSE 0)
    /\ pingResult = "failed" =>
          /\ err.cell # "client"
          /\ pc # "client"
          /\ "client" \in defined

\* The ping failed and the run went on to construct the vector store.
C2_Witness ==
    pingResult = "failed" /\ pc = "done" /\ err = NoErr /\ storeCalls = 1

\* C3 as stated: a missing source file makes the load step fail with
\* SourceNotFound, with no embedding and no vector-store call.
C3_Original ==
    (~fileExists /\ "load" \in Range(executed)) =>
        /\ err = [cell |-> "load", type |-> "SourceNotFound"]
        /\ embedCalls = 0
        /\ storeCalls = 0

\* C3, amended: a missing source file makes the loader cell fail with the
\* AssertionError of its assert, before the loader is constructed, with no
\* embedding and no vector-store call.
C3_MissingFileAsserts ==
    (~fileExists /\ "load" \in Range(executed)) =>
        /\ err = [cell |-> "load", type |-> "AssertionError"]
        /\ "loader" \notin defined
        /\ embedCalls = 0
        /\ storeCalls = 0

\* The loader cell has run on a missing file.
C3_Witness == ~fileExists /\ "load" \in Range(executed) /\ rootDir = 1

\* C4 as stated: after a run without error every chunk of the Splitter has
\* a record in the vector store.
C4_Original ==
    (pc = "done" /\ err = NoErr) => upserted = nSplits

\* C9: the root search lists only the immediate parent, iterates at most
\* once per ancestor and ends; it binds root_dir (to the immediate parent)
\* exactly when there is an ancestor and the immediate parent holds a
\* marker, and otherwise raises Exception with no later cell run.
C9_Inv ==
    LET finished == pc # "root" \/ err # NoErr
        found == depth >= 1 /\ marker[1]
    IN /\ listed \subseteq {1}
       /\ i <= depth
       /\ ~finished => rootDir = 0
       /\ finished =>
             /\ (rootDir # 0) <=> found
             /\ rootDir # 0 => rootDir = 1 /\ "root_dir" \in defined
             /\ ~found => /\ err = [cell |-> "root", type |-> "Exception"]
                          /\ executed = <<"root">>

C10_StoreNeedsPagesAndChunks ==
    "client" \in Range(executed) => nDocs >= 38 /\ nSplits >= 2

\* The vector store is constructed from exactly 38 pages and 2 chunks.
C10_Witness == "store" \in Range(executed) /\ nDocs = 38 /\ nSplits = 2

====
